---- MODULE Spec2Model ----
(***************************************************************************)
(* Model of the two sverchok-extra nodes:                                  *)
(*   nodes/field/attractor_field.py  SvExAttractorFieldNode                *)
(*   nodes/curve/rbf_curve.py        SvExRbfCurveNode                      *)
(* Python values are records [kind, val, items]; numbers of the float      *)
(* properties are counted in halves (1 stands for 0.5).                    *)
(***************************************************************************)
EXTENDS Integers, Sequences, FiniteSets, TLC

VARIABLES
    attractor_type, falloff_type, point_mode, clamp, amplitude, coefficient,
    sockets, hide,
    fieldLinked, fieldOut, fieldRun,
    function, curveLinked, curveOut, curveRun, normalize,
    pts, ts,
    scipy, registered, hostCalls, regCalls

uiVars    == <<attractor_type, falloff_type, point_mode, clamp, amplitude, coefficient, sockets, hide>>
fieldVars == <<fieldLinked, fieldOut, fieldRun>>
curveVars == <<function, curveLinked, curveOut, curveRun, normalize>>
tsVars    == <<pts, ts>>
regVars   == <<scipy, registered, hostCalls, regCalls>>
vars      == <<uiVars, fieldVars, curveVars, tsVars, regVars>>

\* ------------------------------------------------------------------ bounds
\* longest input list handed to a node
MaxObjs == 2
\* most attraction centers in one object
MaxCenters == 2
\* most points of one curve
MaxPts == 3
\* most calls of one host registration function
MaxCalls == 3

\* ------------------------------------------------------------ Python values
PyNum(kind, n) == [kind |-> kind, val |-> n, items |-> <<>>]
PyFloat(n) == PyNum("float", n)
PySeq(kind, xs) == [kind |-> kind, val |-> 0, items |-> xs]

\* isinstance(x, kinds)
isinstance(x, kinds) == x.kind \in kinds

\* x[0]: the first element of a list or tuple; an int or float is not
\* subscriptable (TypeError), an empty sequence has no element (IndexError)
Subscript0(x) ==
    IF x.kind \in {"list", "tuple"}
    THEN IF Len(x.items) > 0
         THEN [err |-> "none", val |-> x.items[1]]
         ELSE [err |-> "IndexError", val |-> x]
    ELSE [err |-> "TypeError", val |-> x]

MaxOf(S) == CHOOSE m \in S : \A x \in S : x <= m

\* item i of a list repeated past its end by its last item
RepeatLast(lst, i) == IF i <= Len(lst) THEN lst[i] ELSE lst[Len(lst)]

\* zip_long_repeat(*lists): as many tuples as the longest list has items,
\* the shorter lists repeating their last item
zip_long_repeat(lists) ==
    LET n == MaxOf({Len(lists[j]) : j \in 1..Len(lists)})
    IN  [i \in 1..n |-> [j \in 1..Len(lists) |-> RepeatLast(lists[j], i)]]

\* --------------------------------------------------- attractor field node
types == {"Point", "Line", "Plane"}
point_modes == {"AVG", "MIN"}
falloff_types == {"NONE", "inverse", "inverse_square", "inverse_cubic", "inverse_exp", "gauss"}

\* An enum property whose stored value matches no item reads as ''.
AttractorTypeValues == types \cup {""}

\* FloatProperty values, in halves
FloatValues == {0, 1, 2}
amplitude_default == 1
coefficient_default == 1

NoSockets == [Direction |-> FALSE, Amplitude |-> FALSE, Coefficient |-> FALSE]

\* update_type: the hide_safe flag of the three optional input sockets
update_type(atype, ftype) ==
    [Direction   |-> (atype = "Point"),
     Amplitude   |-> (ftype # "NONE"),
     Coefficient |-> (ftype \notin {"NONE", "inverse_exp", "gauss"})]

\* sv_init without its last line, the call of update_type
sv_init_no_update ==
    /\ ~sockets
    /\ sockets' = TRUE
    /\ hide' = NoSockets
    /\ UNCHANGED <<attractor_type, falloff_type, point_mode, clamp, amplitude, coefficient>>
    /\ UNCHANGED <<fieldVars, curveVars, tsVars, regVars>>

\* sv_init: creates the sockets, then calls update_type
sv_init ==
    /\ ~sockets
    /\ sockets' = TRUE
    /\ hide' = update_type(attractor_type, falloff_type)
    /\ UNCHANGED <<attractor_type, falloff_type, point_mode, clamp, amplitude, coefficient>>
    /\ UNCHANGED <<fieldVars, curveVars, tsVars, regVars>>

\* attractor_type: update = update_type
SetAttractorType(t) ==
    /\ sockets
    /\ attractor_type' = t
    /\ hide' = update_type(t, falloff_type)
    /\ UNCHANGED <<falloff_type, point_mode, clamp, amplitude, coefficient, sockets>>
    /\ UNCHANGED <<fieldVars, curveVars, tsVars, regVars>>

\* falloff_type: update = update_type
SetFalloffType(f) ==
    /\ sockets
    /\ falloff_type' = f
    /\ hide' = update_type(attractor_type, f)
    /\ UNCHANGED <<attractor_type, point_mode, clamp, amplitude, coefficient, sockets>>
    /\ UNCHANGED <<fieldVars, curveVars, tsVars, regVars>>

\* point_mode, clamp, amplitude, coefficient: update = updateNode
SetPointMode(m) ==
    /\ sockets
    /\ point_mode' = m
    /\ UNCHANGED <<attractor_type, falloff_type, clamp, amplitude, coefficient, sockets, hide>>
    /\ UNCHANGED <<fieldVars, curveVars, tsVars, regVars>>

SetClamp(b) ==
    /\ sockets
    /\ clamp' = b
    /\ UNCHANGED <<attractor_type, falloff_type, point_mode, amplitude, coefficient, sockets, hide>>
    /\ UNCHANGED <<fieldVars, curveVars, tsVars, regVars>>

SetAmplitude(a) ==
    /\ sockets
    /\ amplitude' = a
    /\ UNCHANGED <<attractor_type, falloff_type, point_mode, clamp, coefficient, sockets, hide>>
    /\ UNCHANGED <<fieldVars, curveVars, tsVars, regVars>>

SetCoefficient(c) ==
    /\ sockets
    /\ coefficient' = c
    /\ UNCHANGED <<attractor_type, falloff_type, point_mode, clamp, amplitude, sockets, hide>>
    /\ UNCHANGED <<fieldVars, curveVars, tsVars, regVars>>

\* --------------------------------------------------------------- field data
\* The field classes of sverchok_extra.data are constructors: a field is the
\* record of its class and of the arguments it was built from.
NoKdt == [size |-> 0, entries |-> <<>>, balanced |-> FALSE]
NoneValue == PyNum("NoneType", 0)
None == [type |-> "None", amplitude |-> NoneValue, coefficient |-> NoneValue, clamp |-> FALSE]

Field(cls, centers, direction, fall, mode, parts, kdt) ==
    [cls |-> cls, centers |-> centers, direction |-> direction, falloff |-> fall,
     mode |-> mode, parts |-> parts, kdt |-> kdt]

SvExScalarFieldPointDistance(center, fall) ==
    Field("SvExScalarFieldPointDistance", <<center>>, <<>>, fall, "", <<>>, NoKdt)
SvExVectorFieldPointDistance(center, fall) ==
    Field("SvExVectorFieldPointDistance", <<center>>, <<>>, fall, "", <<>>, NoKdt)
SvExMergedScalarField(mode, fields) ==
    Field("SvExMergedScalarField", <<>>, <<>>, None, mode, fields, NoKdt)
SvExAverageVectorField(fields) ==
    Field("SvExAverageVectorField", <<>>, <<>>, None, "", fields, NoKdt)
SvExKdtVectorField(kdt, fall) ==
    Field("SvExKdtVectorField", <<>>, <<>>, fall, "", <<>>, kdt)
SvExKdtScalarField(kdt, fall) ==
    Field("SvExKdtScalarField", <<>>, <<>>, fall, "", <<>>, kdt)
SvExLineAttractorScalarField(center, direction, fall) ==
    Field("SvExLineAttractorScalarField", <<center>>, direction, fall, "", <<>>, NoKdt)
SvExLineAttractorVectorField(center, direction, fall) ==
    Field("SvExLineAttractorVectorField", <<center>>, direction, fall, "", <<>>, NoKdt)
SvExPlaneAttractorScalarField(center, direction, fall) ==
    Field("SvExPlaneAttractorScalarField", <<center>>, direction, fall, "", <<>>, NoKdt)
SvExPlaneAttractorVectorField(center, direction, fall) ==
    Field("SvExPlaneAttractorVectorField", <<center>>, direction, fall, "", <<>>, NoKdt)

\* falloff(type, amplitude, coefficient, clamp): the falloff function of the
\* four arguments
falloff(ftype, a, c, cl) == [type |-> ftype, amplitude |-> a, coefficient |-> c, clamp |-> cl]

\* np.array(v): the coordinates of v, one array element each
np_array(v) == [k \in 1..Len(v) |-> v[k]]

\* kdtree.KDTree(size)
KDTree(size) == [size |-> size, entries |-> <<>>, balanced |-> FALSE]
\* kdt.insert(co, index)
kdt_insert(kdt, co, index) == [kdt EXCEPT !.entries = Append(@, [co |-> co, index |-> index])]
\* kdt.balance()
kdt_balance(kdt) == [kdt EXCEPT !.balanced = TRUE]

\* the centers inserted under indices counted from 1
RECURSIVE InsertAll_from_one(_, _, _)
InsertAll_from_one(kdt, centers, k) ==
    IF k > Len(centers) THEN kdt
    ELSE InsertAll_from_one(kdt_insert(kdt, centers[k], k), centers, k + 1)

\* for i, v in enumerate(centers): kdt.insert(v, i)
RECURSIVE InsertAll(_, _, _)
InsertAll(kdt, centers, k) ==
    IF k > Len(centers) THEN kdt
    ELSE InsertAll(kdt_insert(kdt, centers[k], k - 1), centers, k + 1)

\* the mode tested before the number of centers
to_point_mode_first(centers, fall, pmode) ==
    LET n == Len(centers) IN
    IF pmode = "AVG"
    THEN [vfield |-> SvExAverageVectorField(
                        [k \in 1..n |-> SvExVectorFieldPointDistance(centers[k], fall)]),
          sfield |-> SvExMergedScalarField("AVG",
                        [k \in 1..n |-> SvExScalarFieldPointDistance(centers[k], fall)])]
    ELSE LET kdt == kdt_balance(InsertAll(KDTree(Len(centers)), centers, 1))
         IN  [vfield |-> SvExKdtVectorField(kdt, fall),
              sfield |-> SvExKdtScalarField(kdt, fall)]

\* to_point
to_point(centers, fall, pmode) ==
    LET n == Len(centers) IN
    IF n = 1
    THEN [vfield |-> SvExVectorFieldPointDistance(centers[1], fall),
          sfield |-> SvExScalarFieldPointDistance(centers[1], fall)]
    ELSE IF pmode = "AVG"
    THEN [vfield |-> SvExAverageVectorField(
                        [k \in 1..n |-> SvExVectorFieldPointDistance(centers[k], fall)]),
          sfield |-> SvExMergedScalarField("AVG",
                        [k \in 1..n |-> SvExScalarFieldPointDistance(centers[k], fall)])]
    ELSE LET kdt == kdt_balance(InsertAll(KDTree(Len(centers)), centers, 1))
         IN  [vfield |-> SvExKdtVectorField(kdt, fall),
              sfield |-> SvExKdtScalarField(kdt, fall)]

\* the scalar field given the point and the direction in the wrong order
to_line_swapped(center, direction, fall) ==
    [vfield |-> SvExLineAttractorVectorField(np_array(center), np_array(direction), fall),
     sfield |-> SvExLineAttractorScalarField(np_array(direction), np_array(center), fall)]

\* to_line
to_line(center, direction, fall) ==
    [vfield |-> SvExLineAttractorVectorField(np_array(center), np_array(direction), fall),
     sfield |-> SvExLineAttractorScalarField(np_array(center), np_array(direction), fall)]

\* to_plane
to_plane(center, direction, fall) ==
    [vfield |-> SvExPlaneAttractorVectorField(np_array(center), np_array(direction), fall),
     sfield |-> SvExPlaneAttractorScalarField(np_array(center), np_array(direction), fall)]

NoField == Field("", <<>>, <<>>, None, "", <<>>, NoKdt)
Raise(e) == [err |-> e, vfield |-> NoField, sfield |-> NoField]
Built(pair) == [err |-> "none", vfield |-> pair.vfield, sfield |-> pair.sfield]

\* if isinstance(x, (list, tuple)): x = x[0]
FirstIfSequence(x) ==
    IF isinstance(x, {"list", "tuple"}) THEN Subscript0(x) ELSE [err |-> "none", val |-> x]

\* the dispatch on attractor_type of one object
Dispatch(atype, pmode, centers, direction, fall) ==
    IF atype = "Point" THEN Built(to_point(centers, fall, pmode))
    ELSE IF atype = "Line"
    THEN IF Len(centers) = 0 \/ Len(direction) = 0 THEN Raise("IndexError")
         ELSE Built(to_line(centers[1], direction[1], fall))
    ELSE IF atype = "Plane"
    THEN IF Len(centers) = 0 \/ Len(direction) = 0 THEN Raise("IndexError")
         ELSE Built(to_plane(centers[1], direction[1], fall))
    ELSE Raise("Exception")

\* the body of the loop of process, for one object
\* <<centers, direction, amplitude, coefficient>>
FieldObject(obj, atype, ftype, pmode, cl) ==
    LET a == FirstIfSequence(obj[3])
        c == FirstIfSequence(obj[4])
    IN  IF a.err # "none" THEN Raise(a.err)
        ELSE IF c.err # "none" THEN Raise(c.err)
        ELSE LET falloff_func == IF ftype = "NONE" THEN None
                                 ELSE falloff(ftype, a.val, c.val, cl)
             IN  Dispatch(atype, pmode, obj[1], obj[2], falloff_func)

\* ------------------------------------------------------------ field process
FieldSockets == {"Center", "Direction", "Amplitude", "Coefficient"}
Unset == [set |-> FALSE, data |-> <<>>]
\* socket.sv_set(data)
sv_set(data) == [set |-> TRUE, data |-> data]

NoInputs == [Center |-> <<>>, Direction |-> <<>>, Amplitude |-> <<>>, Coefficient |-> <<>>]
NotRun == [called |-> FALSE, linked |-> FALSE, read |-> {}, raised |-> "none",
           built |-> 0, written |-> {}, inputs |-> NoInputs]

\* any(socket.is_linked for socket in self.outputs)
AnyLinked(links) == \E s \in DOMAIN links : links[s]

\* index of the first object whose processing raises, 0 when none does
FirstError(results) ==
    IF \E i \in 1..Len(results) : results[i].err # "none"
    THEN CHOOSE i \in 1..Len(results) :
            /\ results[i].err # "none"
            /\ \A k \in 1..(i - 1) : results[k].err = "none"
    ELSE 0

\* process with no output linked: returns at once
ReturnedAtOnce(out, none) ==
    [out |-> out,
     run |-> [called |-> TRUE, linked |-> FALSE, read |-> {}, raised |-> "none",
              built |-> 0, written |-> {}, inputs |-> none]]

\* the outputs set while the objects are processed, not after the last one
process_field_set_early(out, in, atype, ftype, pmode, cl) ==
    LET objects == zip_long_repeat(<<in.Center, in.Direction, in.Amplitude, in.Coefficient>>)
        results == [i \in 1..Len(objects) |-> FieldObject(objects[i], atype, ftype, pmode, cl)]
        bad     == FirstError(results)
        n       == IF bad # 0 THEN bad - 1 ELSE Len(results)
    IN  [out |-> [SField |-> sv_set([i \in 1..n |-> results[i].sfield]),
                  VField |-> sv_set([i \in 1..n |-> results[i].vfield])],
         run |-> [called |-> TRUE, linked |-> TRUE, read |-> FieldSockets,
                  raised |-> IF bad # 0 THEN results[bad].err ELSE "none", built |-> n,
                  written |-> {"SField", "VField"}, inputs |-> in]]

\* process, once an output is linked: the new content of the output sockets
\* and the record of the call (out: the sockets' content before the call,
\* in: what sv_get returns)
process_field_linked(out, in, atype, ftype, pmode, cl) ==
    LET objects == zip_long_repeat(<<in.Center, in.Direction, in.Amplitude, in.Coefficient>>)
        results == [i \in 1..Len(objects) |-> FieldObject(objects[i], atype, ftype, pmode, cl)]
        bad     == FirstError(results)
    IN  IF bad # 0
        THEN [out |-> out,
              run |-> [called |-> TRUE, linked |-> TRUE, read |-> FieldSockets,
                       raised |-> results[bad].err, built |-> bad - 1,
                       written |-> {}, inputs |-> in]]
        ELSE [out |-> [SField |-> sv_set([i \in 1..Len(results) |-> results[i].sfield]),
                       VField |-> sv_set([i \in 1..Len(results) |-> results[i].vfield])],
              run |-> [called |-> TRUE, linked |-> TRUE, read |-> FieldSockets,
                       raised |-> "none", built |-> Len(results),
                       written |-> {"SField", "VField"}, inputs |-> in]]

\* process without the test of the output links
process_field_unguarded(out, links, in, atype, ftype, pmode, cl) ==
    process_field_linked(out, in, atype, ftype, pmode, cl)

\* process
process_field(out, links, in, atype, ftype, pmode, cl) ==
    IF ~AnyLinked(links) THEN ReturnedAtOnce(out, NoInputs)
    ELSE process_field_linked(out, in, atype, ftype, pmode, cl)

\* What the input sockets deliver.  Item i of a list is told from the others
\* by its value: object i of a Center list has 1 + (i - 1) mod MaxCenters
\* centers, the items of the number lists alternate between a bare number
\* and a one-element sequence.
Center(i, j) == <<i, j, 0>>
NCenters(i) == ((i - 1) % MaxCenters) + 1
CenterList(n) == [i \in 1..n |-> [j \in 1..NCenters(i) |-> Center(i, j)]]
DirectionList(n) == [i \in 1..n |-> << <<0, 0, i>> >>]
NumberList(n, first, base, seqkind) ==
    [i \in 1..n |-> IF (i % 2 = 1) = first THEN PyFloat(base + i)
                    ELSE PySeq(seqkind, <<PyFloat(base + i)>>)]

FieldInputs ==
    { [Center      |-> CenterList(a),
       Direction   |-> DirectionList(b),
       Amplitude   |-> NumberList(c, TRUE, 10, "list"),
       Coefficient |-> NumberList(d, FALSE, 20, "tuple")] :
      <<a, b, c, d>> \in (1..MaxObjs) \X (1..MaxObjs) \X (1..MaxObjs) \X (1..MaxObjs) }

\* the sockets of a node with no input linked deliver their properties
PropInputs ==
    [Center      |-> << << <<0, 0, 0>> >> >>,
     Direction   |-> << << <<0, 0, 1>> >> >>,
     Amplitude   |-> << PySeq("list", <<PyFloat(amplitude)>>) >>,
     Coefficient |-> << PySeq("list", <<PyFloat(coefficient)>>) >>]

\* the input lists all of one length
FieldInputsEqual ==
    { [Center      |-> CenterList(n),
       Direction   |-> DirectionList(n),
       Amplitude   |-> NumberList(n, TRUE, 10, "list"),
       Coefficient |-> NumberList(n, FALSE, 20, "tuple")] : n \in 1..MaxObjs }

\* one evaluation of the node by the host, the linked input sockets
\* delivering one of Delivered
FieldProcessOn(Delivered) ==
    /\ sockets
    /\ \E in \in (IF AnyLinked(fieldLinked) THEN Delivered ELSE {PropInputs}) :
          LET r == process_field(fieldOut, fieldLinked, in,
                                 attractor_type, falloff_type, point_mode, clamp)
          IN  /\ fieldOut' = r.out
              /\ fieldRun' = r.run
    /\ UNCHANGED <<uiVars, fieldLinked, curveVars, tsVars, regVars>>

FieldProcess == FieldProcessOn(FieldInputs)
FieldProcessEqual == FieldProcessOn(FieldInputsEqual)

\* the host links or unlinks an output socket
FieldLink(s, b) ==
    /\ sockets
    /\ fieldLinked[s] # b
    /\ fieldLinked' = [fieldLinked EXCEPT ![s] = b]
    /\ UNCHANGED <<uiVars, fieldOut, fieldRun, curveVars, tsVars, regVars>>

\* --------------------------------------------------------------- curve node
rbf_functions == {"multiquadric", "gaussian", "linear", "cubic"}

\* floor of the square root; exact on the distances of the model's points
Sqrt(s) == CHOOSE r \in 0..s : r * r <= s /\ s < (r + 1) * (r + 1)

\* np.linalg.norm(p - q)
Distance(p, q) ==
    Sqrt((p[1] - q[1]) * (p[1] - q[1]) + (p[2] - q[2]) * (p[2] - q[2])
         + (p[3] - q[3]) * (p[3] - q[3]))

\* cumsum of the distances of consecutive points, 0 for the first point
RECURSIVE CumulativeLength(_, _)
CumulativeLength(points, i) ==
    IF i <= 1 THEN 0
    ELSE CumulativeLength(points, i - 1) + Distance(points[i - 1], points[i])

\* A parameter value is the quotient num / den; a quotient by 0 is not a
\* number (0.0 / 0.0 is nan): it is equal to nothing and ordered with nothing.
IsNaN(t) == t.den = 0
Leq(s, t) == ~IsNaN(s) /\ ~IsNaN(t) /\ s.num * t.den <= t.num * s.den
IsZero(t) == ~IsNaN(t) /\ t.num = 0

\* make_euclidian_ts(pts): one parameter value per point, the length of the
\* polyline up to the point, divided by the whole length when normalized
make_euclidian_ts(points, norm) ==
    LET n == Len(points)
        total == CumulativeLength(points, n)
    IN  [i \in 1..n |-> [num |-> CumulativeLength(points, i),
                         den |-> IF norm THEN total ELSE 1]]

\* the distance of every point from the first one, not accumulated
ObjectTs_from_first(vertices, norm) ==
    [i \in 1..Len(vertices) |-> [num |-> Distance(vertices[1], vertices[i]), den |-> 1]]

\* vertices = np.array(vertices); ts = make_euclidian_ts(vertices)
ObjectTs(vertices, norm) ==
    make_euclidian_ts([i \in 1..Len(vertices) |-> np_array(vertices[i])], norm)

\* Rbf(ts, vertices, function=, smooth=, epsilon=, mode='N-D')
Rbf(t, vertices, fn, smooth, epsilon) ==
    [ts |-> t, vertices |-> vertices, function |-> fn, smooth |-> smooth,
     epsilon |-> epsilon, mode |-> "N-D"]
\* SvExRbfCurve(rbf, u_bounds)
SvExRbfCurve(rbf, u_bounds) == [rbf |-> rbf, u_bounds |-> u_bounds]

NoCurve == SvExRbfCurve(Rbf(<<>>, <<>>, "", NoneValue, NoneValue), <<0, 0>>)

\* if isinstance(x, (list, int)): x = x[0]
FirstIfListOrInt(x) ==
    IF isinstance(x, {"list", "int"}) THEN Subscript0(x) ELSE [err |-> "none", val |-> x]

\* the body of the loop of process, for one object <<vertices, epsilon, smooth>>
CurveObject(obj, fn, norm) ==
    LET e == FirstIfListOrInt(obj[2])
        sm == FirstIfListOrInt(obj[3])
    IN  IF e.err # "none" THEN [err |-> e.err, curve |-> NoCurve]
        ELSE IF sm.err # "none" THEN [err |-> sm.err, curve |-> NoCurve]
        ELSE LET vertices == [i \in 1..Len(obj[1]) |-> np_array(obj[1][i])]
                 t == ObjectTs(obj[1], norm)
                 rbf == Rbf(t, vertices, fn, sm.val, e.val)
             IN  [err |-> "none", curve |-> SvExRbfCurve(rbf, <<0, 1>>)]

CurveSockets == {"Vertices", "Epsilon", "Smooth"}
NoCurveInputs == [Vertices |-> <<>>, Epsilon |-> <<>>, Smooth |-> <<>>]
CurveNotRun == [called |-> FALSE, linked |-> FALSE, read |-> {}, raised |-> "none",
                built |-> 0, written |-> {}, inputs |-> NoCurveInputs]

\* process of the curve node, once the output is linked
process_curve_linked(out, in, fn, norm) ==
    LET objects == zip_long_repeat(<<in.Vertices, in.Epsilon, in.Smooth>>)
        results == [i \in 1..Len(objects) |-> CurveObject(objects[i], fn, norm)]
        bad     == FirstError(results)
    IN  IF bad # 0
        THEN [out |-> out,
              run |-> [called |-> TRUE, linked |-> TRUE, read |-> CurveSockets,
                       raised |-> results[bad].err, built |-> bad - 1,
                       written |-> {}, inputs |-> in]]
        ELSE [out |-> [Curve |-> sv_set([i \in 1..Len(results) |-> results[i].curve])],
              run |-> [called |-> TRUE, linked |-> TRUE, read |-> CurveSockets,
                       raised |-> "none", built |-> Len(results),
                       written |-> {"Curve"}, inputs |-> in]]

\* process of the curve node
process_curve(out, links, in, fn, norm) ==
    IF ~AnyLinked(links) THEN ReturnedAtOnce(out, NoCurveInputs)
    ELSE process_curve_linked(out, in, fn, norm)

\* What the input sockets of the curve node deliver: object i is a polyline
\* of its own, item i of a number list is 30 + i or 40 + i, wrapped in a list
\* or a tuple or bare (float or int), the kinds following one another from
\* a first kind on.
CurvePoint(i, k) == <<3 * i * (k - 1), 4 * i * (k - 1), 0>>
VerticesList(n) ==
    [i \in 1..n |-> [k \in 1..(2 + ((i - 1) % (MaxPts - 1))) |-> CurvePoint(i, k)]]
ValueKinds == <<"list", "float", "tuple", "int">>
Wrapped(kind, x) ==
    IF kind \in {"list", "tuple"} THEN PySeq(kind, <<PyFloat(x)>>) ELSE PyNum(kind, x)
ValueList(n, v, base) ==
    [i \in 1..n |-> Wrapped(ValueKinds[((i - 1 + v) % 4) + 1], base + i)]
CurveInput(a, b, c, ve, vs) ==
    [Vertices |-> VerticesList(a), Epsilon |-> ValueList(b, ve, 30), Smooth |-> ValueList(c, vs, 40)]

\* lists of every length whose items are lists, floats and tuples, and
\* lists of one length with an int among the Epsilon or the Smooth items
CurveInputs ==
    { CurveInput(a, b, c, 0, 0) :
        <<a, b, c>> \in (1..MaxObjs) \X (1..MaxObjs) \X (1..MaxObjs) }
    \cup { CurveInput(n, n, n, v[1], v[2]) :
             n \in 1..MaxObjs, v \in {<<3, 0>>, <<0, 3>>, <<2, 0>>} }

\* the sockets of a node with no input linked: the Epsilon and Smooth
\* properties (1.0 and 0.0), nested as socket data
CurvePropInputs ==
    [Vertices |-> << <<CurvePoint(1, 1), CurvePoint(1, 2)>> >>,
     Epsilon  |-> << PySeq("list", <<PyFloat(2)>>) >>,
     Smooth   |-> << PySeq("list", <<PyFloat(0)>>) >>]

\* the lists all of one length
CurveInputsEqual ==
    { CurveInput(n, n, n, v, 0) : n \in 1..MaxObjs, v \in {0, 3} }

\* one evaluation of the curve node by the host, the linked input sockets
\* delivering one of Delivered
CurveProcessOn(Delivered) ==
    /\ \E in \in (IF AnyLinked(curveLinked) THEN Delivered ELSE {CurvePropInputs}) :
          LET r == process_curve(curveOut, curveLinked, in, function, normalize)
          IN  /\ curveOut' = r.out
              /\ curveRun' = r.run
    /\ UNCHANGED <<uiVars, fieldVars, function, curveLinked, normalize, tsVars, regVars>>

CurveProcess == CurveProcessOn(CurveInputs)
CurveProcessEqual == CurveProcessOn(CurveInputsEqual)

\* the host links or unlinks the Curve output
CurveLink(b) ==
    /\ curveLinked["Curve"] # b
    /\ curveLinked' = [curveLinked EXCEPT !["Curve"] = b]
    /\ UNCHANGED <<uiVars, fieldVars, function, curveOut, curveRun, normalize, tsVars, regVars>>

\* the parametrization of one object's points
Parametrize ==
    /\ ts = <<>>
    /\ ts' = ObjectTs(pts, normalize)
    /\ UNCHANGED <<uiVars, fieldVars, curveVars, pts, regVars>>

\* ------------------------------------------------------------- registration
CurveClass == "SvExRbfCurveNode"
FieldClass == "SvExAttractorFieldNode"
NoCalls == [register_class |-> 0, unregister_class |-> 0]
NoRegCalls == [curve_register |-> 0, curve_unregister |-> 0,
               field_register |-> 0, field_unregister |-> 0]

\* bpy.utils.register_class(cls) / bpy.utils.unregister_class(cls)
bpy_register_class(cls) ==
    /\ registered' = registered \cup {cls}
    /\ hostCalls' = [hostCalls EXCEPT ![cls].register_class = @ + 1]
bpy_unregister_class(cls) ==
    /\ registered' = registered \ {cls}
    /\ hostCalls' = [hostCalls EXCEPT ![cls].unregister_class = @ + 1]

\* the host calls a module's register() or unregister()
Called(f) ==
    /\ regCalls[f] < MaxCalls
    /\ regCalls' = [regCalls EXCEPT ![f] = @ + 1]
    /\ UNCHANGED <<uiVars, fieldVars, curveVars, tsVars, scipy>>

curve_register_unguarded ==
    /\ Called("curve_register")
    /\ bpy_register_class(CurveClass)

\* rbf_curve.register
curve_register ==
    /\ Called("curve_register")
    /\ IF scipy # "None" THEN bpy_register_class(CurveClass)
       ELSE UNCHANGED <<registered, hostCalls>>

\* rbf_curve.unregister
curve_unregister ==
    /\ Called("curve_unregister")
    /\ IF scipy # "None" THEN bpy_unregister_class(CurveClass)
       ELSE UNCHANGED <<registered, hostCalls>>

\* attractor_field.register
field_register ==
    /\ Called("field_register")
    /\ bpy_register_class(FieldClass)

\* attractor_field.unregister
field_unregister ==
    /\ Called("field_unregister")
    /\ bpy_unregister_class(FieldClass)

\* ----------------------------------------------------------- specifications
Classes == {CurveClass, FieldClass}

UIDefaults ==
    /\ attractor_type = "Point"
    /\ falloff_type = "NONE"
    /\ point_mode = "AVG"
    /\ clamp = FALSE
    /\ amplitude = amplitude_default
    /\ coefficient = coefficient_default
    /\ sockets = FALSE
    /\ hide = NoSockets

FieldIdle ==
    /\ fieldLinked = [VField |-> FALSE, SField |-> FALSE]
    /\ fieldOut = [SField |-> Unset, VField |-> Unset]
    /\ fieldRun = NotRun

CurveIdle ==
    /\ curveLinked = [Curve |-> FALSE]
    /\ curveOut = [Curve |-> Unset]
    /\ curveRun = CurveNotRun

CurveDefaults ==
    /\ function = "multiquadric"
    /\ normalize = TRUE
    /\ CurveIdle

TsIdle == pts = <<>> /\ ts = <<>>

RegIdle ==
    /\ registered = {}
    /\ hostCalls = [c \in Classes |-> NoCalls]
    /\ regCalls = NoRegCalls

\* The two nodes and the registration functions share no state; each is
\* checked under its own specification.

\* the properties of the attractor field node and the visibility they drive
InitUI == UIDefaults /\ FieldIdle /\ CurveDefaults /\ TsIdle /\ scipy = "present" /\ RegIdle
NextUI ==
    \/ sv_init
    \/ \E t \in types : SetAttractorType(t)
    \/ \E f \in falloff_types : SetFalloffType(f)
    \/ \E m \in point_modes : SetPointMode(m)
    \/ \E b \in BOOLEAN : SetClamp(b)
    \/ \E a \in FloatValues : SetAmplitude(a)
    \/ \E c \in FloatValues : SetCoefficient(c)
SpecUI == InitUI /\ [][NextUI]_vars

\* process of the attractor field node, for every setting of its properties
InitField ==
    /\ attractor_type \in AttractorTypeValues
    \* process tells 'NONE' from the other falloff types, which it all hands
    \* to falloff() alike
    /\ falloff_type \in {"NONE", "gauss"}
    /\ point_mode \in point_modes
    /\ clamp \in BOOLEAN
    \* process reads point_mode for a Point attractor only, and clamp with
    \* a falloff only
    /\ attractor_type # "Point" => point_mode = "AVG"
    /\ falloff_type = "NONE" => clamp = FALSE
    /\ amplitude = amplitude_default
    /\ coefficient = coefficient_default
    /\ sockets = TRUE
    /\ hide = update_type(attractor_type, falloff_type)
    /\ FieldIdle /\ CurveDefaults /\ TsIdle /\ scipy = "present" /\ RegIdle
NextField ==
    \/ FieldProcess
    \/ \E s \in {"VField", "SField"}, b \in BOOLEAN : FieldLink(s, b)
SpecField == InitField /\ [][NextField]_vars

\* process of the curve node, for every kernel function
InitCurve ==
    /\ UIDefaults /\ FieldIdle
    /\ function \in rbf_functions
    /\ normalize \in BOOLEAN
    /\ CurveIdle /\ TsIdle /\ scipy = "present" /\ RegIdle
NextCurve ==
    \/ CurveProcess
    \/ \E b \in BOOLEAN : CurveLink(b)
SpecCurve == InitCurve /\ [][NextCurve]_vars

\* the parametrization of every sequence of 2..MaxPts points
Points == {<<0, 0, 0>>, <<3, 0, 0>>, <<3, 4, 0>>}
PointSeqs == UNION {[1..n -> Points] : n \in 2..MaxPts}
InitTs ==
    /\ UIDefaults /\ FieldIdle
    /\ function = "multiquadric"
    /\ normalize \in BOOLEAN
    /\ CurveIdle
    /\ pts \in PointSeqs
    /\ ts = <<>>
    /\ scipy = "present" /\ RegIdle
NextTs == Parametrize
SpecTs == InitTs /\ [][NextTs]_vars

\* registration, with and without the optional dependency
InitReg ==
    /\ UIDefaults /\ FieldIdle /\ CurveDefaults /\ TsIdle
    /\ scipy \in {"present", "None"}
    /\ RegIdle
NextReg ==
    \/ curve_register
    \/ curve_unregister
    \/ field_register
    \/ field_unregister
SpecReg == InitReg /\ [][NextReg]_vars

\* both nodes side by side, initialized, their input lists of one length
InitNodes ==
    /\ attractor_type = "Point"
    /\ falloff_type = "NONE"
    /\ point_mode = "AVG"
    /\ clamp = FALSE
    /\ amplitude = amplitude_default
    /\ coefficient = coefficient_default
    /\ sockets = TRUE
    /\ hide = update_type(attractor_type, falloff_type)
    /\ FieldIdle /\ CurveDefaults /\ TsIdle /\ scipy = "present" /\ RegIdle
NextNodes ==
    \/ FieldProcessEqual
    \/ \E s \in {"VField", "SField"}, b \in BOOLEAN : FieldLink(s, b)
    \/ CurveProcessEqual
    \/ \E b \in BOOLEAN : CurveLink(b)
SpecNodes == InitNodes /\ [][NextNodes]_vars

\* the whole add-on
Init == InitUI
Next == NextUI \/ NextField \/ NextCurve \/ NextReg
Spec == Init /\ [][Next]_vars

\* =================================================================== claims
\* What a claim expects is computed here from the inputs of the last call.
ItemAt(lst, i) == lst[IF i < Len(lst) THEN i ELSE Len(lst)]
Longest(lists) == CHOOSE m \in lists : \A x \in lists : x <= m
Unwrap(x) == IF x.kind \in {"list", "tuple"} THEN x.items[1] ELSE x

FieldCompleted == fieldRun.called /\ fieldRun.linked /\ fieldRun.raised = "none"
FieldCount ==
    Longest({Len(fieldRun.inputs.Center), Len(fieldRun.inputs.Direction),
             Len(fieldRun.inputs.Amplitude), Len(fieldRun.inputs.Coefficient)})
CentersOf(i) == ItemAt(fieldRun.inputs.Center, i)
ExpectedFalloff(i) ==
    IF falloff_type = "NONE" THEN None
    ELSE [type |-> falloff_type,
          amplitude |-> Unwrap(ItemAt(fieldRun.inputs.Amplitude, i)),
          coefficient |-> Unwrap(ItemAt(fieldRun.inputs.Coefficient, i)),
          clamp |-> clamp]
ExpectedGeometry(i) ==
    IF attractor_type = "Point"
    THEN [centers |-> CentersOf(i), direction |-> <<>>]
    ELSE [centers |-> <<CentersOf(i)[1]>>,
          direction |-> ItemAt(fieldRun.inputs.Direction, i)[1]]
GeometryOf(f) ==
    [centers |-> IF f.parts # <<>> THEN [k \in 1..Len(f.parts) |-> f.parts[k].centers[1]]
                 ELSE IF f.kdt.entries # <<>>
                 THEN [k \in 1..Len(f.kdt.entries) |-> f.kdt.entries[k].co]
                 ELSE f.centers,
     direction |-> f.direction]
FalloffsOf(f) ==
    IF f.parts # <<>> THEN {f.parts[k].falloff : k \in 1..Len(f.parts)} ELSE {f.falloff}
RaisesNotImplemented ==
    /\ attractor_type \notin types =>
          /\ fieldRun.raised = "Exception"
          /\ fieldRun.written = {}
          /\ ~fieldOut.SField.set /\ ~fieldOut.VField.set
    /\ fieldRun.raised = "Exception" => fieldRun.written = {}
    /\ attractor_type \in types => fieldRun.raised # "Exception"

\* C1, as stated: every call of process with an attractor_type other than
\* 'Point', 'Line', 'Plane' raises the fatal error and writes neither
\* output; with a supported value the error is never raised.
C1_AsStated == fieldRun.called => RaisesNotImplemented

\* C1, amended: the same of every call of process with an output linked
\* (the call that reaches the dispatch on attractor_type).
C1_UnsupportedTypeRaises == (fieldRun.called /\ fieldRun.linked) => RaisesNotImplemented

C1_Witness ==
    /\ fieldRun.called /\ fieldRun.linked
    /\ attractor_type = ""
    /\ fieldRun.raised = "Exception"
    /\ Len(fieldRun.inputs.Center) = 2

\* C3: for a Point attractor, an object with exactly one center yields the
\* point-distance vector field and the point-distance scalar field on that
\* center with the object's falloff, in mode AVG and in mode MIN alike.
C3_SingleCenterModesAgree ==
    (FieldCompleted /\ attractor_type = "Point") =>
        \A i \in 1..FieldCount :
            Len(CentersOf(i)) = 1 =>
                /\ i <= Len(fieldOut.VField.data) /\ i <= Len(fieldOut.SField.data)
                /\ fieldOut.VField.data[i]
                     = SvExVectorFieldPointDistance(CentersOf(i)[1], ExpectedFalloff(i))
                /\ fieldOut.SField.data[i]
                     = SvExScalarFieldPointDistance(CentersOf(i)[1], ExpectedFalloff(i))

C3_Witness ==
    /\ FieldCompleted /\ attractor_type = "Point" /\ point_mode = "MIN"
    /\ falloff_type = "gauss"
    /\ \E i \in 1..FieldCount : Len(CentersOf(i)) = 1

\* C4: a completed call with an output linked writes to VField and SField
\* lists of one length, the length of the longest input list, and the i-th
\* vector field and the i-th scalar field are built from the i-th object:
\* its geometry and its falloff.
C4_PairedFields ==
    FieldCompleted =>
        /\ fieldOut.VField.set /\ fieldOut.SField.set
        /\ Len(fieldOut.VField.data) = FieldCount
        /\ Len(fieldOut.SField.data) = FieldCount
        /\ \A i \in 1..FieldCount :
              /\ GeometryOf(fieldOut.VField.data[i]) = ExpectedGeometry(i)
              /\ GeometryOf(fieldOut.SField.data[i]) = ExpectedGeometry(i)
              /\ FalloffsOf(fieldOut.VField.data[i]) = {ExpectedFalloff(i)}
              /\ FalloffsOf(fieldOut.SField.data[i]) = {ExpectedFalloff(i)}

C4_Witness ==
    /\ FieldCompleted
    /\ attractor_type = "Line" /\ falloff_type = "gauss"
    /\ Len(fieldRun.inputs.Center) = 1
    /\ Len(fieldRun.inputs.Coefficient) = 2
    /\ Len(fieldOut.VField.data) = 2

\* C5: for a Point attractor, an object of two or more centers yields, in
\* mode AVG, the average of one point-distance field per center; in the
\* other mode, two fields on one balanced index that holds center i under
\* index i (counted from 0), every center once.
C5_ModeSelectsConstruction ==
    (FieldCompleted /\ attractor_type = "Point") =>
        \A i \in 1..FieldCount :
            LET c == CentersOf(i)
                fall == ExpectedFalloff(i)
                v == fieldOut.VField.data[i]
                sf == fieldOut.SField.data[i]
            IN  Len(c) >= 2 =>
                  IF point_mode = "AVG"
                  THEN /\ v = SvExAverageVectorField(
                                 [k \in 1..Len(c) |-> SvExVectorFieldPointDistance(c[k], fall)])
                       /\ sf = SvExMergedScalarField("AVG",
                                 [k \in 1..Len(c) |-> SvExScalarFieldPointDistance(c[k], fall)])
                  ELSE /\ v.cls = "SvExKdtVectorField" /\ sf.cls = "SvExKdtScalarField"
                       /\ v.kdt = sf.kdt
                       /\ v.falloff = fall /\ sf.falloff = fall
                       /\ v.kdt.balanced
                       /\ v.kdt.size = Len(c)
                       /\ Len(v.kdt.entries) = Len(c)
                       /\ \A k \in 1..Len(c) :
                             v.kdt.entries[k] = [co |-> c[k], index |-> k - 1]

C5_Witness ==
    /\ FieldCompleted /\ attractor_type = "Point" /\ point_mode = "MIN"
    /\ \E i \in 1..FieldCount : Len(CentersOf(i)) >= 2

\* C9: once sv_init has run, Direction is hidden exactly when attractor_type
\* is 'Point', Amplitude exactly when falloff_type is not 'NONE', Coefficient
\* exactly when falloff_type is none of 'NONE', 'inverse_exp', 'gauss',
\* whatever property was changed last.
C9_VisibilityFollowsProperties ==
    sockets =>
        /\ hide.Direction = (attractor_type = "Point")
        /\ hide.Amplitude = (falloff_type # "NONE")
        /\ hide.Coefficient = (falloff_type \notin {"NONE", "inverse_exp", "gauss"})

C9_Witness ==
    /\ sockets
    /\ attractor_type = "Plane" /\ falloff_type = "inverse_square"
    /\ clamp /\ point_mode = "MIN" /\ amplitude = 2 /\ coefficient = 0
    /\ ~hide.Direction /\ hide.Amplitude /\ hide.Coefficient

C2_Absent ==
    scipy = "None" => CurveClass \notin registered /\ hostCalls[CurveClass] = NoCalls
C2_Present ==
    scipy # "None" =>
        /\ regCalls'.curve_register # regCalls.curve_register =>
              /\ CurveClass \in registered'
              /\ hostCalls'[CurveClass].register_class = hostCalls[CurveClass].register_class + 1
        /\ regCalls'.curve_unregister # regCalls.curve_unregister =>
              /\ CurveClass \notin registered'
              /\ hostCalls'[CurveClass].unregister_class = hostCalls[CurveClass].unregister_class + 1

\* C2: without scipy the curve node class is never registered and the host
\* is never called for it, whatever register() and unregister() calls are
\* made; with scipy, register() registers the class and unregister()
\* removes it.
C2_RegistrationFollowsDependency == []C2_Absent /\ [][C2_Present]_vars

C2_Witness ==
    /\ scipy = "None"
    /\ regCalls.curve_register = 2 /\ regCalls.curve_unregister = 1
    /\ FieldClass \in registered

Monotone ==
    /\ Len(ts) = Len(pts)
    /\ IsZero(ts[1])
    /\ \A i \in 1..(Len(ts) - 1) : Leq(ts[i], ts[i + 1])

\* C6, as stated: for every sequence of two or more points the parameter
\* values, one per point, start at 0 and never decrease.
C6_AsStated == ts # <<>> => Monotone

\* C6, amended: so it is for every sequence of two or more points that are
\* not all the same point.
C6_ParametrizationMonotone ==
    (ts # <<>> /\ \E i \in 1..(Len(pts) - 1) : pts[i] # pts[i + 1]) => Monotone

C6_Witness ==
    /\ ts # <<>> /\ normalize
    /\ Len(pts) = 3 /\ pts[1] # pts[2] /\ pts[3] = pts[1]

C8_Returned ==
    /\ (fieldRun.called /\ ~fieldRun.linked) =>
          fieldRun.read = {} /\ fieldRun.built = 0 /\ fieldRun.raised = "none"
          /\ fieldRun.written = {}
    /\ (curveRun.called /\ ~curveRun.linked) =>
          curveRun.read = {} /\ curveRun.built = 0 /\ curveRun.raised = "none"
          /\ curveRun.written = {}
C8_Frame ==
    /\ ~AnyLinked(fieldLinked) =>
          /\ fieldOut' = fieldOut
          /\ fieldRun' # fieldRun => (fieldRun'.called /\ ~fieldRun'.linked)
    /\ ~AnyLinked(curveLinked) =>
          /\ curveOut' = curveOut
          /\ curveRun' # curveRun => (curveRun'.called /\ ~curveRun'.linked)

\* C8: a call of process with no output linked reads no input, builds
\* nothing and raises nothing, and while no output of a node is linked the
\* content of its outputs does not change.
C8_UnlinkedProcessDoesNothing == []C8_Returned /\ [][C8_Frame]_vars

C8_Witness ==
    /\ ~AnyLinked(fieldLinked) /\ fieldRun.called /\ ~fieldRun.linked
    /\ fieldOut.VField.set /\ Len(fieldOut.VField.data) = 2
    /\ ~AnyLinked(curveLinked) /\ curveRun.called /\ ~curveRun.linked
    /\ curveOut.Curve.set /\ Len(curveOut.Curve.data) = 2

CurveCount ==
    Longest({Len(curveRun.inputs.Vertices), Len(curveRun.inputs.Epsilon),
             Len(curveRun.inputs.Smooth)})
ListsAndNumbers(lst) == \A i \in 1..Len(lst) : lst[i].kind \in {"list", "int", "float"}

\* C10, as stated: in a call of process with the output linked, an epsilon
\* or smooth value that arrives as a list or as a bare number (int or float)
\* raises no error, and the interpolant is handed the first element of the
\* list, or the bare number itself.
C10_AsStated ==
    (curveRun.called /\ curveRun.linked
       /\ ListsAndNumbers(curveRun.inputs.Epsilon) /\ ListsAndNumbers(curveRun.inputs.Smooth)) =>
        /\ curveRun.raised = "none"
        /\ curveOut.Curve.set /\ Len(curveOut.Curve.data) = CurveCount
        /\ \A i \in 1..CurveCount :
              LET rbf == curveOut.Curve.data[i].rbf IN
              /\ rbf.epsilon = Unwrap(ItemAt(curveRun.inputs.Epsilon, i))
              /\ rbf.smooth = Unwrap(ItemAt(curveRun.inputs.Smooth, i))
              /\ rbf.epsilon.kind \in {"int", "float"}
              /\ rbf.smooth.kind \in {"int", "float"}

\* C7, as stated: a call of process with the output linked emits one curve
\* per object, as many as the longest of the three input lists has items,
\* each with the domain [0, 1] and the interpolant of the object's own
\* parameter values and points with the selected function.
C7_AsStated ==
    (curveRun.called /\ curveRun.linked) =>
        /\ curveOut.Curve.set /\ Len(curveOut.Curve.data) = CurveCount
        /\ \A i \in 1..CurveCount :
              LET curve == curveOut.Curve.data[i]
                  vertices == ItemAt(curveRun.inputs.Vertices, i)
              IN  /\ curve.u_bounds = <<0, 1>>
                  /\ curve.rbf.function = function
                  /\ curve.rbf.vertices = vertices
                  /\ curve.rbf.ts = make_euclidian_ts(vertices, normalize)

====
